---- MODULE Spec2Model ----
(***************************************************************************)
(* ESP-RFID Manager (esp-rfid-manager/rootfs/app/app.py): the message      *)
(* router, the device registry, the command dispatcher, the card           *)
(* registration workflow and the liveness sweeper, as a state machine.     *)
(*                                                                         *)
(* Strings that the code splits on '/' (MQTT topics) are sequences of      *)
(* their segments: '/esprfid/door1/send' is <<"", "esprfid", "door1",      *)
(* "send">>.  A payload is a record; a key the JSON object does not carry  *)
(* has the value Absent.  Payload values are strings, as the device        *)
(* protocol sends them.  Time is in whole seconds; `now` is the UTC clock  *)
(* that SQLite's datetime('now') reads, and now + tz is the local clock    *)
(* that Python's datetime.now() reads.                                     *)
(*                                                                         *)
(* One ESPRFIDManager instance is modelled, the one the global `manager`   *)
(* names, and each handler runs as one atomic step.                        *)
(***************************************************************************)
EXTENDS Integers, Sequences, FiniteSets, TLC

VARIABLES
    devices,                \* table devices: set of rows, UNIQUE(hostname)
    users,                  \* table users: set of rows, UNIQUE(uid, device_hostname)
    access_logs,            \* table access_logs: rows in id order
    events,                 \* table events: rows in id order
    card_registrations,     \* table card_registrations: rows in id order (id = index)
    connected_devices,      \* manager.connected_devices: dict, in insertion order
    ha_discovery_sent,      \* manager.ha_discovery_sent
    card_detection_active,  \* manager.card_detection_active
    now,                    \* UTC wall clock, seconds
    tz,                     \* local clock minus UTC clock, seconds
    next_sweep,             \* UTC time of the scheduler's next cleanup run
    detecting_clients,      \* socket clients that sent start_card_detection and have
                            \* since neither sent stop_card_detection nor disconnected
    sweep_job,              \* the cleanup run in progress: its position and its locals
    last                    \* the operation that just ran: its inputs and what it emitted

vars == <<devices, users, access_logs, events, card_registrations,
          connected_devices, ha_discovery_sent, card_detection_active,
          now, tz, next_sweep, detecting_clients, sweep_job, last>>

(***************************************************************************)
(* Bounds of the model.                                                    *)
(***************************************************************************)
MaxTime == 120
MaxLogs == 2
MaxRegs == 2
MaxEvents == 1

(***************************************************************************)
(* Program constants.                                                      *)
(***************************************************************************)
OfflineTimeout == 90        \* cleanup_offline_devices: timedelta(seconds=90)
SweepMinutes == 1           \* scheduler.add_job(..., minutes=1)
SweepInterval == SweepMinutes * 60

MQTT_TOPIC == <<"", "esprfid">>     \* os.getenv('MQTT_TOPIC', '/esprfid')

Absent == "<absent>"

\* dict.get(key, default)
Get(value, default) == IF value = Absent THEN default ELSE value

\* Python truthiness of a str
Truthy(s) == s /= "" /\ s /= Absent

(***************************************************************************)
(* Storage: the tables created by init_database.                           *)
(***************************************************************************)
\* INSERT OR REPLACE INTO devices: UNIQUE(hostname) removes the conflicting row
InsertOrReplaceDevice(rows, row) ==
    {r \in rows : r.hostname /= row.hostname} \cup {row}

\* INSERT OR REPLACE INTO users: UNIQUE(uid, device_hostname)
\* a plain INSERT into a users table without UNIQUE(uid, device_hostname)
InsertUser(rows, row) == rows \cup {row}

InsertOrReplaceUser(rows, row) ==
    {r \in rows : ~(r.uid = row.uid /\ r.device_hostname = row.device_hostname)}
        \cup {row}

\* INSERT OR IGNORE INTO card_registrations (uid, device_hostname): the table
\* declares no UNIQUE constraint besides the autoincrement id, so no insert
\* conflicts and none is ignored.
InsertOrIgnoreRegistration(rows, uid, hostname) ==
    Append(rows, [uid |-> uid, device_hostname |-> hostname, status |-> "pending"])

\* SELECT ... FROM devices WHERE hostname = ?
DeviceRows(hostname) == {r \in devices : r.hostname = hostname}
HasDevice(hostname) == DeviceRows(hostname) /= {}
DeviceRow(hostname) == CHOOSE r \in DeviceRows(hostname) : TRUE

(***************************************************************************)
(* manager.connected_devices: a dict, kept as the sequence of its items in *)
(* insertion order (the order `for hostname, device_info in d.items()`     *)
(* visits them).                                                           *)
(***************************************************************************)
DictKeys(d) == {d[i].hostname : i \in 1..Len(d)}
DictIndex(d, hostname) == CHOOSE i \in 1..Len(d) : d[i].hostname = hostname
DictGet(d, hostname) == d[DictIndex(d, hostname)]

\* d[hostname] = value: an existing key keeps its position
DictSet(d, hostname, item) ==
    IF hostname \in DictKeys(d)
    THEN [d EXCEPT ![DictIndex(d, hostname)] = item]
    ELSE Append(d, item)

(***************************************************************************)
(* What an operation leaves behind for an observer: its inputs and the     *)
(* notifications and bus publishes it emitted.                             *)
(***************************************************************************)
NoLast ==
    [op            |-> "none",     \* which operation ran
     host          |-> "",         \* resolved hostname of a message, or target device
     kind          |-> "none",     \* message kind handled, or command name
     uid           |-> "",         \* uid the payload or the command carries
     unknown_card  |-> FALSE,      \* scan of a card whose username is the "Unknown" sentinel
     prev_status   |-> "none",     \* stored status of the host before the message
     back_online   |-> FALSE,      \* "Door Status changed to online" published
     logs_added    |-> 0,          \* rows the message appended to access_logs
     regs_added    |-> 0,          \* rows the message appended to card_registrations
     offline       |-> {},         \* hostnames an offline notification was published for
     new_card      |-> 0,          \* number of 'new_card_detected' emitted
     ip            |-> "",         \* device_ip a command was sent for
     by_hostname   |-> FALSE,      \* the caller passed device_hostname to the dispatcher
     pub_topic     |-> <<>>,       \* topic of the command publish, <<>> when none
     pub_result    |-> "none",     \* "ok" (rc = 0), "rc_error" (rc /= 0), "raised"
     returned      |-> "none",     \* what the dispatcher returned: "True", "False"
     reg_id        |-> 0,          \* registration id of a completion request
     user          |-> <<>>,       \* <<username, acctype, valid_since, valid_until>> of the request
     http          |-> 0,          \* status code of the REST response
     button        |-> "",         \* <id> of a message on homeassistant/button/<id>/cmd
     handlers      |-> 0,          \* kind-specific handler calls the message caused
     topic_device  |-> "",         \* <hostname> of a topic <base>/<hostname>/<leaf>
     payload_hostname |-> "",      \* payload['hostname'] as received
     after_failure |-> FALSE,      \* the operation before this one (ticks aside) failed
     client        |-> "",         \* socket client whose signal the operation handled
     discovery     |-> FALSE,      \* the discovery configs of the host were published
     demoted       |-> {}]         \* hostnames whose stored status the sweep set offline

\* operations that ended in an exception
FailedOps == {"dropped", "handler_failed", "sweep_failed"}

AfterFailure == last.op \in FailedOps \/ (last.op = "tick" /\ last.after_failure)

(***************************************************************************)
(* on_mqtt_message: hostname resolution and kind dispatch.                 *)
(***************************************************************************)
\* '/' in topic
HasSlash(topic) == Len(topic) >= 2

\* '/tag' in topic: some segment after a '/' is "tag"
IsTagTopic(topic) == \E i \in 2..Len(topic) : topic[i] = "tag"

\* 'cmd' in topic
HasCmd(topic) == \E i \in 1..Len(topic) : topic[i] = "cmd"

\* "/unlock/cmd" in topic and topic.startswith("homeassistant/button/")
IsButtonTopic(topic) ==
    /\ \E i \in 2..(Len(topic) - 1) : topic[i] = "unlock" /\ topic[i + 1] = "cmd"
    /\ Len(topic) >= 3
    /\ topic[1] = "homeassistant"
    /\ topic[2] = "button"

\* lines 298-308: payload.get('hostname', 'unknown'), then topic_parts[1]
TopicHostname(topic) ==
    IF HasSlash(topic) /\ topic[2] /= "" /\ topic[2] \notin {"send", "cmd", "tag"}
    THEN topic[2]
    ELSE "unknown"

ResolveHostname(topic, payload) ==
    IF Get(payload.hostname, "unknown") = "unknown"
    THEN TopicHostname(topic)
    ELSE payload.hostname

\* payload['hostname'] = device_hostname, only when the topic supplied it
ResolvedPayload(topic, payload) ==
    IF Get(payload.hostname, "unknown") = "unknown" /\ TopicHostname(topic) /= "unknown"
    THEN [payload EXCEPT !.hostname = TopicHostname(topic)]
    ELSE payload

\* lines 314-333: the if/elif chain
Kind(topic, p) ==
    LET msg_type == Get(p.type, "")
        cmd == Get(p.cmd, "")
    IN  IF IsTagTopic(topic) THEN "tag"
        ELSE IF msg_type = "boot" THEN "boot"
        ELSE IF msg_type = "heartbeat" THEN "heartbeat"
        ELSE IF msg_type = "access" THEN "access"
        ELSE IF msg_type \in {"INFO", "WARN", "ERRO"} THEN "event"
        ELSE IF cmd = "userfile" THEN "userfile"
        ELSE IF cmd = "log" THEN "log"
        ELSE IF Truthy(p.uid) /\ ~Truthy(msg_type) /\ ~Truthy(cmd) THEN "card_scan"
        ELSE "none"

\* lines 335-337: if 'cmd' in topic and payload.get('cmd') == 'log'
AlsoLog(topic, p) == HasCmd(topic) /\ Get(p.cmd, "") = "log"

\* the handler calls of lines 318-337
HandlerCalls(topic, p) ==
    (IF Kind(topic, p) = "none" THEN 0 ELSE 1) + (IF AlsoLog(topic, p) THEN 1 ELSE 0)

\* f"homeassistant/button/esp_rfid_{hostname}_unlock/cmd" (send_ha_discovery)
ButtonHostnames == {"door1", "door2"}

UnlockButtonId(hostname) ==
    CASE hostname = "door1" -> "esp_rfid_door1_unlock"
      [] hostname = "door2" -> "esp_rfid_door2_unlock"

HubButtonTopic(button_id) == <<"homeassistant", "button", button_id, "cmd">>

\* lines 286-290: parts[2] with the prefix 'esp_rfid_' and the suffix '_unlock'
\* removed; Absent when it has not both
ButtonHostname(button_id) ==
    IF \E h \in ButtonHostnames : UnlockButtonId(h) = button_id
    THEN CHOOSE h \in ButtonHostnames : UnlockButtonId(h) = button_id
    ELSE Absent

\* the <id> of a topic the subscription homeassistant/button/+/cmd delivers
ButtonSegment(topic) ==
    IF Len(topic) = 4 /\ topic[1] = "homeassistant" /\ topic[2] = "button"
                      /\ topic[4] = "cmd"
    THEN topic[3]
    ELSE ""

\* the <hostname> of a topic the subscription {MQTT_TOPIC}/+/<leaf> delivers
TopicDevice(topic) ==
    IF Len(topic) = Len(MQTT_TOPIC) + 2
          /\ SubSeq(topic, 1, Len(MQTT_TOPIC)) = MQTT_TOPIC
    THEN topic[Len(MQTT_TOPIC) + 1]
    ELSE ""

(***************************************************************************)
(* update_device_status (lines 349-412) and send_ha_discovery.             *)
(***************************************************************************)
StoredStatus(hostname) ==
    IF HasDevice(hostname) THEN DeviceRow(hostname).status ELSE "none"

\* lines 351-362: the cached status when the hostname is cached, else the stored one
WasOffline(hostname) ==
    IF hostname \in DictKeys(connected_devices)
    THEN DictGet(connected_devices, hostname).status = "offline"
    ELSE HasDevice(hostname) /\ DeviceRow(hostname).status = "offline"

\* INSERT OR IGNORE in place of INSERT OR REPLACE: a known hostname keeps its row
UpsertedDevicesIgnoring(hostname, ip_address) ==
    IF HasDevice(hostname)
    THEN devices
    ELSE devices \cup {[hostname |-> hostname, ip_address |-> ip_address,
                        last_seen |-> now, status |-> "online"]}

\* the status column written 'online' only for a message that carries an ip,
\* and left to its default, 'offline', otherwise
UpsertedDevicesOnlineWithIp(hostname, ip_address) ==
    InsertOrReplaceDevice(devices,
        [hostname |-> hostname, ip_address |-> ip_address,
         last_seen |-> now,
         status |-> IF Truthy(ip_address) THEN "online" ELSE "offline"])

\* lines 364-370: INSERT OR REPLACE ... VALUES (?, ?, datetime('now'), 'online')
UpsertedDevices(hostname, ip_address) ==
    InsertOrReplaceDevice(devices,
        [hostname |-> hostname, ip_address |-> ip_address,
         last_seen |-> now, status |-> "online"])

\* the cache entry written only for a hostname not cached yet
CachedOnlineOnce(hostname, ip_address) ==
    IF hostname \in DictKeys(connected_devices)
    THEN connected_devices
    ELSE Append(connected_devices,
             [hostname |-> hostname, ip_address |-> ip_address, status |-> "online"])

\* lines 372-376; the cached 'last_seen' is written here and read nowhere
CachedOnline(hostname, ip_address) ==
    DictSet(connected_devices, hostname,
        [hostname |-> hostname, ip_address |-> ip_address, status |-> "online"])

(***************************************************************************)
(* The kind-specific handlers.  Each yields what it appends to the tables  *)
(* and how many 'new_card_detected' notifications it emits:                *)
(*   [logs, regs, users, events, new_card].                                *)
(***************************************************************************)
NoEffect == [logs |-> <<>>, regs |-> <<>>, users |-> <<>>, events |-> <<>>, new_card |-> 0]

AccessLogRow(hostname, uid, username, is_known) ==
    [device_hostname |-> hostname, uid |-> uid, username |-> username,
     is_known |-> is_known]

\* the guard of lines 476, 591, 668
NewCardGate(username, uid, hostname) ==
    username = "Unknown" /\ Truthy(uid) /\ Truthy(hostname) /\ card_detection_active

\* handle_access_message
HandleAccess(p) ==
    LET hostname == Get(p.hostname, "")
        uid == Get(p.uid, "")
        username == Get(p.username, "Unknown")
        is_known == Get(p.isKnown, "false") = "true"
    IN  [NoEffect EXCEPT
            !.logs = <<AccessLogRow(hostname, uid, username, is_known)>>,
            !.new_card = IF NewCardGate(username, uid, hostname) THEN 1 ELSE 0]

\* handle_tag_message
HandleTag(p) ==
    LET hostname == Get(p.hostname, "unknown")
        uid == Get(p.uid, "")
        username == Get(p.username, "Unknown")
    IN  [NoEffect EXCEPT
            !.logs = <<AccessLogRow(hostname, uid, username, username /= "Unknown")>>,
            !.new_card = IF NewCardGate(username, uid, hostname) THEN 1 ELSE 0]

\* handle_log_message
HandleLog(p) ==
    LET hostname == Get(p.hostname, "")
        uid == Get(p.uid, "")
        username == Get(p.username, "Unknown")
    IN  [NoEffect EXCEPT
            !.logs = <<AccessLogRow(hostname, uid, username, username /= "Unknown")>>,
            !.new_card = IF NewCardGate(username, uid, hostname) THEN 1 ELSE 0]

\* handle_card_scan
HandleCardScan(p) ==
    LET uid == Get(p.uid, "")
        hostname == Get(p.hostname, "")
    IN  IF Truthy(uid) /\ Truthy(hostname)
        THEN [NoEffect EXCEPT
                !.regs = <<[uid |-> uid, device_hostname |-> hostname]>>,
                !.new_card = 1]
        ELSE NoEffect

\* handle_userfile_message
HandleUserfile(p) ==
    LET uid == Get(p.uid, "")
        username == Get(p.user, "")
        hostname == Get(p.hostname, "")
    IN  IF Truthy(uid) /\ Truthy(username) /\ Truthy(hostname)
        THEN [NoEffect EXCEPT
                !.users = <<[uid |-> uid, username |-> username,
                             device_hostname |-> hostname,
                             acctype |-> Get(p.acctype, "1"),
                             valid_since |-> Get(p.validsince, "0"),
                             valid_until |-> Get(p.validuntil, "0")]>>]
        ELSE NoEffect

EventRow(hostname, event_type, source, description) ==
    [device_hostname |-> hostname, event_type |-> event_type,
     source |-> source, description |-> description]

\* handle_boot_message: log_event(hostname, 'INFO', 'system', 'Device booted', ...)
HandleBoot(p) ==
    [NoEffect EXCEPT
        !.events = <<EventRow(p.hostname, "INFO", "system", "Device booted")>>]

\* handle_event_message
HandleEvent(p) ==
    LET hostname == Get(p.hostname, "")
        event_type == Get(p.type, "INFO")
        source == Get(p.src, "")
        description == Get(p.desc, "")
        data == Get(p.data, "")
    IN  [NoEffect EXCEPT
            !.events = <<EventRow(hostname, event_type, source, description)>>,
            !.new_card =
                IF /\ event_type = "WARN" /\ source = "rfid"
                   /\ description = "Unknown rfid tag is scanned"
                   /\ Truthy(data) /\ card_detection_active
                   /\ Truthy(hostname)
                THEN 1 ELSE 0]

Handle(kind, p) ==
    CASE kind = "tag" -> HandleTag(p)
      [] kind = "boot" -> HandleBoot(p)
      [] kind = "access" -> HandleAccess(p)
      [] kind = "event" -> HandleEvent(p)
      [] kind = "userfile" -> HandleUserfile(p)
      [] kind = "log" -> HandleLog(p)
      [] kind = "card_scan" -> HandleCardScan(p)
      [] OTHER -> NoEffect      \* heartbeat, or no handler

\* one effect after the other
Then(a, b) ==
    [logs |-> a.logs \o b.logs, regs |-> a.regs \o b.regs,
     users |-> a.users \o b.users, events |-> a.events \o b.events,
     new_card |-> a.new_card + b.new_card]

\* lines 313-337: the handler of the message's kind, then handle_log_message
\* once more for a log message that arrived on a cmd topic
Dispatch(topic, p) ==
    Then(Handle(Kind(topic, p), p),
         IF AlsoLog(topic, p) THEN HandleLog(p) ELSE NoEffect)

(***************************************************************************)
(* on_mqtt_message (lines 277-347) for a message on a device topic.        *)
(***************************************************************************)
ApplyRegs(regs) ==
    IF regs = <<>>
    THEN card_registrations
    ELSE InsertOrIgnoreRegistration(card_registrations,
                                    regs[1].uid, regs[1].device_hostname)

ApplyUsers(rows) ==
    IF rows = <<>> THEN users ELSE InsertOrReplaceUser(users, rows[1])

\* lines 811-812: the configs are published unless the hostname is marked as sent
DiscoveryPublishedAlways(hostname) == TRUE

DiscoveryPublished(hostname) == hostname \notin ha_discovery_sent

\* send_ha_discovery: publishes the configs once per hostname
DiscoverySent(hostname) == ha_discovery_sent \cup {hostname}

OnMqttMessage(topic, payload) ==
    /\ ~IsButtonTopic(topic)
    /\ LET device_hostname == ResolveHostname(topic, payload)
           device_ip == Get(payload.ip, "")
           p == ResolvedPayload(topic, payload)
           effect == Dispatch(topic, p)
       IN  /\ Len(access_logs) + Len(effect.logs) <= MaxLogs
           /\ Len(card_registrations) + Len(effect.regs) <= MaxRegs
           /\ Len(events) + Len(effect.events) <= MaxEvents
           \* update_device_status(device_hostname, device_ip)
           /\ devices' = UpsertedDevices(device_hostname, device_ip)
           /\ connected_devices' = CachedOnline(device_hostname, device_ip)
           /\ ha_discovery_sent' = DiscoverySent(device_hostname)
           \* the handler of the message's kind
           /\ access_logs' = access_logs \o effect.logs
           /\ card_registrations' = ApplyRegs(effect.regs)
           /\ users' = ApplyUsers(effect.users)
           /\ events' = events \o effect.events
           /\ last' = [NoLast EXCEPT
                  !.op = "message",
                  !.host = device_hostname,
                  !.kind = Kind(topic, p),
                  !.uid = Get(p.uid, ""),
                  !.unknown_card = /\ Get(p.username, "Unknown") = "Unknown"
                                   /\ Truthy(p.uid),
                  !.prev_status = StoredStatus(device_hostname),
                  !.back_online = WasOffline(device_hostname),
                  !.discovery = DiscoveryPublished(device_hostname),
                  !.logs_added = Len(effect.logs),
                  !.regs_added = Len(effect.regs),
                  !.new_card = effect.new_card,
                  !.button = ButtonSegment(topic),
                  !.handlers = HandlerCalls(topic, p),
                  !.topic_device = TopicDevice(topic),
                  !.payload_hostname = payload.hostname,
                  !.after_failure = AfterFailure]
    /\ UNCHANGED <<card_detection_active,
                   detecting_clients, sweep_job, now, tz, next_sweep>>

\* update_device_status moved above json.loads
DevicesRefreshedBeforeDecode(topic) == UpsertedDevices(TopicHostname(topic), "")

\* line 294 raises before line 311 is reached
DevicesAfterDecodeError(topic) == devices

\* the payload is not JSON: json.loads raises, the except clause logs the error
OnUndecodableMessage(topic) ==
    /\ ~IsButtonTopic(topic)
    /\ last' = [NoLast EXCEPT !.op = "dropped", !.button = ButtonSegment(topic),
                              !.topic_device = TopicDevice(topic)]
    /\ devices' = DevicesAfterDecodeError(topic)
    /\ UNCHANGED <<users, access_logs, events, card_registrations,
                   connected_devices, ha_discovery_sent, card_detection_active,
                   detecting_clients, sweep_job,
                   now, tz, next_sweep>>

(***************************************************************************)
(* Time, the scheduler and cleanup_offline_devices (lines 2282-2330).      *)
(***************************************************************************)
\* the instants the model lets the clock stand at: every half sweep interval
\* and the second before it
HalfInterval == SweepInterval \div 2
TimePoints == {t \in 0..MaxTime : t % HalfInterval \in {0, HalfInterval - 1}}

\* the instants the model lets the process start again at
RestartTimes == {t \in TimePoints : t % SweepInterval = 0}

\* local clock minus UTC clock: the container's TZ
TzOffsets == {0 - 3600, 0, 3600}

Tick ==
    /\ \E t \in TimePoints :
          /\ t > now
          /\ t <= next_sweep
          /\ \A u \in TimePoints : u > now => t <= u
          /\ now' = t
    /\ last' = [NoLast EXCEPT !.op = "tick", !.after_failure = AfterFailure]
    /\ UNCHANGED <<devices, users, access_logs, events, card_registrations,
                   connected_devices, ha_discovery_sent, card_detection_active,
                   detecting_clients, sweep_job,
                   tz, next_sweep>>

\* cutoff_time = datetime.now() - timedelta(seconds=90): the local clock
CutoffTime == (now + tz) - OfflineTimeout

\* WHERE last_seen < ? AND status = 'online'
StaleRows == {r \in devices : r.last_seen < CutoffTime /\ r.status = "online"}

CleanupOfflineDevices ==
    /\ now = next_sweep
    /\ LET offline_devices == {r.hostname : r \in StaleRows}
       IN  /\ devices' = (devices \ StaleRows)
                            \cup {[r EXCEPT !.status = "offline"] : r \in StaleRows}
           /\ connected_devices' =
                  [i \in 1..Len(connected_devices) |->
                      IF connected_devices[i].hostname \in offline_devices
                      THEN [connected_devices[i] EXCEPT !.status = "offline"]
                      ELSE connected_devices[i]]
           /\ last' = [NoLast EXCEPT !.op = "sweep", !.offline = offline_devices,
                                     !.demoted = offline_devices,
                                     !.after_failure = AfterFailure]
    /\ next_sweep' = next_sweep + SweepInterval
    /\ UNCHANGED <<users, access_logs, events, card_registrations,
                   ha_discovery_sent, card_detection_active,
                   detecting_clients, sweep_job, now, tz>>

\* no cleanup run is in progress
NoSweep == [pc |-> "idle", offline_devices |-> {}, cutoff_time |-> 0, updated |-> {}]

\* the process starts again: __init__ and the __main__ block, over the same database
Restart ==
    /\ now \in RestartTimes
    /\ connected_devices' = <<>>
    /\ ha_discovery_sent' = {}
    /\ card_detection_active' = FALSE
    /\ next_sweep' = now + SweepInterval
    /\ detecting_clients' = {}
    /\ sweep_job' = NoSweep
    /\ last' = [NoLast EXCEPT !.op = "restart"]
    /\ UNCHANGED <<devices, users, access_logs, events, card_registrations, now, tz>>

(***************************************************************************)
(* The detection flag (lines 2263-2279).                                   *)
(***************************************************************************)
\* a stop that clears the flag only when no other client is detecting
DetectionAfterStopScoped(client) == detecting_clients \ {client} /= {}

\* line 2278: manager.card_detection_active = False, whoever sent the signal
DetectionAfterStop(client) == FALSE

\* lines 2258-2261: handle_disconnect logs and leaves the flag as it is
DetectionAfterDisconnect(client) == card_detection_active

\* 'start_card_detection' from the client's Add User modal
HandleStartCardDetection(client) ==
    /\ card_detection_active' = TRUE
    /\ detecting_clients' = detecting_clients \cup {client}
    /\ last' = [NoLast EXCEPT !.op = "start_card_detection", !.client = client]
    /\ UNCHANGED <<devices, users, access_logs, events, card_registrations,
                   connected_devices, ha_discovery_sent, now, tz, next_sweep,
                   sweep_job>>

\* 'stop_card_detection' from the client's Add User modal
HandleStopCardDetection(client) ==
    /\ card_detection_active' = DetectionAfterStop(client)
    /\ detecting_clients' = detecting_clients \ {client}
    /\ last' = [NoLast EXCEPT !.op = "stop_card_detection", !.client = client]
    /\ UNCHANGED <<devices, users, access_logs, events, card_registrations,
                   connected_devices, ha_discovery_sent, now, tz, next_sweep,
                   sweep_job>>

\* the client's socket closes (the browser tab is closed, the network drops)
HandleDisconnect(client) ==
    /\ card_detection_active' = DetectionAfterDisconnect(client)
    /\ detecting_clients' = detecting_clients \ {client}
    /\ last' = [NoLast EXCEPT !.op = "disconnect", !.client = client]
    /\ UNCHANGED <<devices, users, access_logs, events, card_registrations,
                   connected_devices, ha_discovery_sent, now, tz, next_sweep,
                   sweep_job>>

(***************************************************************************)
(* The command dispatcher: send_mqtt_command (lines 744-770) and the       *)
(* operations built on it.                                                 *)
(***************************************************************************)
\* what mqtt_client.publish can do: return rc = 0, return rc /= 0 (the client
\* is not connected), or raise
PublishResults == {"ok", "rc_error", "raised"}

\* lines 749-753: the first item of connected_devices with that ip_address
LookupHostnameByIp(device_ip) ==
    LET matches == {i \in 1..Len(connected_devices) :
                        connected_devices[i].ip_address = device_ip}
    IN  IF matches = {}
        THEN Absent
        ELSE connected_devices[CHOOSE i \in matches : \A j \in matches : i <= j].hostname

CommandHostname(device_ip, device_hostname) ==
    IF Truthy(device_hostname) THEN device_hostname ELSE LookupHostnameByIp(device_ip)

\* lines 755-760
DeviceTopic(hostname) == MQTT_TOPIC \o <<hostname, "cmd">>
GenericTopic == MQTT_TOPIC \o <<"cmd">>

CommandTopic(device_ip, device_hostname) ==
    LET hostname == CommandHostname(device_ip, device_hostname)
    IN  IF Truthy(hostname) THEN DeviceTopic(hostname) ELSE GenericTopic

\* lines 762-770: True unless publish raised; result.rc is logged, not tested
SendReturns(result) == result /= "raised"

PyBool(b) == IF b THEN "True" ELSE "False"

\* the trace of one send_mqtt_command call
Sent(op, cmd, target, device_ip, device_hostname, result) ==
    [NoLast EXCEPT
        !.op = op,
        !.kind = cmd,
        !.host = target,
        !.ip = device_ip,
        !.by_hostname = Truthy(device_hostname),
        !.pub_topic = CommandTopic(device_ip, device_hostname),
        !.pub_result = result,
        !.returned = PyBool(SendReturns(result)),
        !.http = IF SendReturns(result) THEN 200 ELSE 500]

\* api_open_door (lines 1614-1636): manager.open_door(ip, device_hostname)
ApiOpenDoor(device_hostname, result) ==
    /\ IF ~Truthy(device_hostname)
       THEN last' = [NoLast EXCEPT !.op = "api_open_door", !.http = 400]
       ELSE IF ~HasDevice(device_hostname)
       THEN last' = [NoLast EXCEPT !.op = "api_open_door",
                                   !.host = device_hostname, !.http = 404]
       ELSE last' = Sent("api_open_door", "opendoor", device_hostname,
                         DeviceRow(device_hostname).ip_address, device_hostname, result)
    /\ UNCHANGED <<devices, users, access_logs, events, card_registrations,
                   connected_devices, ha_discovery_sent, card_detection_active,
                   detecting_clients, sweep_job,
                   now, tz, next_sweep>>

\* api_sync_device_users (lines 1638-1654): manager.get_user_list(device_ip)
ApiSyncDeviceUsers(hostname, result) ==
    /\ IF ~HasDevice(hostname)
       THEN last' = [NoLast EXCEPT !.op = "api_sync_device_users",
                                   !.host = hostname, !.http = 404]
       ELSE last' = Sent("api_sync_device_users", "getuserlist", hostname,
                         DeviceRow(hostname).ip_address, Absent, result)
    /\ UNCHANGED <<devices, users, access_logs, events, card_registrations,
                   connected_devices, ha_discovery_sent, card_detection_active,
                   detecting_clients, sweep_job,
                   now, tz, next_sweep>>

\* api_complete_card_registration (lines 1560-1612):
\* manager.add_user(device_ip, uid, username, acctype, valid_since, valid_until)
CompletedUsers(success, row) ==
    IF success THEN InsertOrReplaceUser(users, row) ELSE users

\* the UPDATE moved out of `if success:`
CompletedRegistrationsAlways(success, registration_id) ==
    [card_registrations EXCEPT ![registration_id].status = "completed"]

CompletedRegistrations(success, registration_id) ==
    IF success
    THEN [card_registrations EXCEPT ![registration_id].status = "completed"]
    ELSE card_registrations

ApiCompleteCardRegistration(registration_id, username, acctype, valid_since, valid_until, result) ==
    LET request == [NoLast EXCEPT
                       !.op = "api_complete_card_registration",
                       !.reg_id = registration_id,
                       !.user = <<username, acctype, valid_since, valid_until>>]
    IN
    /\ IF ~Truthy(username)
       THEN /\ last' = [request EXCEPT !.http = 400]
            /\ UNCHANGED <<users, card_registrations>>
       ELSE IF registration_id \notin 1..Len(card_registrations)
       THEN /\ last' = [request EXCEPT !.http = 404]
            /\ UNCHANGED <<users, card_registrations>>
       ELSE IF ~HasDevice(card_registrations[registration_id].device_hostname)
       THEN /\ last' = [request EXCEPT !.http = 404,
                   !.host = card_registrations[registration_id].device_hostname]
            /\ UNCHANGED <<users, card_registrations>>
       ELSE LET uid == card_registrations[registration_id].uid
                device_hostname == card_registrations[registration_id].device_hostname
                device_ip == DeviceRow(device_hostname).ip_address
                success == SendReturns(result)
            IN  /\ users' = CompletedUsers(success,
                       [uid |-> uid, username |-> username,
                        device_hostname |-> device_hostname, acctype |-> acctype,
                        valid_since |-> valid_since, valid_until |-> valid_until])
                /\ card_registrations' = CompletedRegistrations(success, registration_id)
                /\ last' = [Sent("api_complete_card_registration", "adduser",
                                 device_hostname, device_ip, Absent, result)
                            EXCEPT !.reg_id = registration_id,
                                   !.uid = uid,
                                   !.user = <<username, acctype, valid_since, valid_until>>]
    /\ UNCHANGED <<devices, access_logs, events, connected_devices,
                   ha_discovery_sent, card_detection_active,
                   detecting_clients, sweep_job, now, tz, next_sweep>>

(***************************************************************************)
(* The inputs of the model.                                                *)
(***************************************************************************)
NoPayload ==
    [hostname |-> Absent, ip |-> Absent, type |-> Absent, cmd |-> Absent,
     uid |-> Absent, username |-> Absent, user |-> Absent, acctype |-> Absent,
     validsince |-> Absent, validuntil |-> Absent,
     isKnown |-> Absent, src |-> Absent, desc |-> Absent, data |-> Absent]

\* f"{MQTT_TOPIC}/{hostname}/send" and the like
Topic(hostname, leaf) == MQTT_TOPIC \o <<hostname, leaf>>

PayloadHostnames == {Absent, "door1"}
PayloadIps == {Absent, "10.0.0.5"}
ApiHostnames == {"", "door1", "door2", "esprfid"}

Heartbeat(hostname, ip) ==
    [NoPayload EXCEPT !.type = "heartbeat", !.hostname = hostname, !.ip = ip]

Init ==
    /\ devices = {}
    /\ users = {}
    /\ access_logs = <<>>
    /\ events = <<>>
    /\ card_registrations = <<>>
    /\ connected_devices = <<>>
    /\ ha_discovery_sent = {}
    /\ card_detection_active = FALSE
    /\ now = 0
    /\ tz \in TzOffsets
    /\ next_sweep = SweepInterval
    /\ detecting_clients = {}
    /\ sweep_job = NoSweep
    /\ last = [NoLast EXCEPT !.op = "init"]

\* the device registry and the sweeper, as the clock advances
Next ==
    \/ \E h \in PayloadHostnames, ip \in PayloadIps :
          OnMqttMessage(Topic("door1", "send"), Heartbeat(h, ip))
    \/ OnUndecodableMessage(Topic("door1", "send"))
    \/ Tick
    \/ CleanupOfflineDevices
    \/ Restart

Spec == Init /\ [][Next]_vars

\* the dispatcher over the registry, the clock standing still
CommandHostnames == {Absent, "door1", "door2"}
CommandIps == {Absent, "10.0.0.5", "10.0.0.6"}

InitUtc == Init /\ tz = 0

NextDispatch ==
    \/ \E h \in CommandHostnames, ip \in CommandIps :
          OnMqttMessage(Topic("door1", "send"), Heartbeat(h, ip))
    \/ Restart
    \/ \E h \in ApiHostnames, r \in PublishResults : ApiOpenDoor(h, r)
    \/ \E h \in ApiHostnames, r \in PublishResults : ApiSyncDeviceUsers(h, r)

SpecDispatch == InitUtc /\ [][NextDispatch]_vars

\* the card registration workflow, the clock standing still
ScanHostnames == {"door1"}
ScanUids == {"AB12"}
ScanUsernames == {"Unknown", "alice"}
ScanLeaves == {"send", "cmd", "tag"}
ScanShapes == {<<Absent, Absent>>, <<"access", Absent>>, <<Absent, "log">>}

Scan(hostname, shape, uid, username) ==
    [NoPayload EXCEPT !.hostname = hostname, !.type = shape[1], !.cmd = shape[2],
                      !.uid = uid, !.username = username]

NextCards ==
    \/ \E leaf \in ScanLeaves, h \in ScanHostnames, shape \in ScanShapes,
          uid \in ScanUids, username \in ScanUsernames :
          OnMqttMessage(Topic("door1", leaf), Scan(h, shape, uid, username))
    \/ HandleStartCardDetection("c1")
    \/ HandleStopCardDetection("c1")
    \/ \E id \in 1..MaxRegs, username \in {"", "alice", "bob"}, r \in PublishResults :
          ApiCompleteCardRegistration(id, username, "1", "0", "0", r)

SpecCards == InitUtc /\ [][NextCards]_vars

(***************************************************************************)
(* Device registry.                                                        *)
(***************************************************************************)
\* C1: right after on_mqtt_message accepted a message whose resolved hostname
\* is H, storage holds Device(H) with status online and last_seen equal to the
\* receipt time, and the in-memory registry entry of H is online.
C1_AcceptedMessageRefreshesDevice ==
    last.op = "message" =>
        /\ \E r \in devices : r.hostname = last.host
        /\ \A r \in devices :
              r.hostname = last.host => r.status = "online" /\ r.last_seen = now
        /\ last.host \in DictKeys(connected_devices)
        /\ DictGet(connected_devices, last.host).status = "online"

\* a message brought a device back that the sweeper had demoted earlier
C1_Witness ==
    /\ last.op = "message"
    /\ last.prev_status = "offline"
    /\ now > 0
    /\ \E r \in devices : r.hostname = last.host /\ r.last_seen = now

\* C2: a message for H that finds H online in storage (as the second of two
\* heartbeats in immediate succession does) leaves exactly one Device row for H
\* and publishes no "back online" notification.
C2_HeartbeatIdempotent ==
    (last.op = "message" /\ last.prev_status = "online") =>
        /\ Cardinality({r \in devices : r.hostname = last.host}) = 1
        /\ ~last.back_online

\* a heartbeat for a device that was online, after an offline period and a
\* restart lie in the past
C2_Witness ==
    /\ last.op = "message"
    /\ last.prev_status = "online"
    /\ ~last.back_online
    /\ \E r \in devices : r.status = "offline"
    /\ now > 0

\* C3: a Device last seen at T0 that receives nothing more is online at T0+89
\* and offline at T0+91.
C3_OnlineAt89OfflineAt91 ==
    \A r \in devices :
        /\ now - r.last_seen <= OfflineTimeout - 1 => r.status = "online"
        /\ now - r.last_seen >= OfflineTimeout + 1 => r.status = "offline"

(***************************************************************************)
(* Card registration workflow.                                             *)
(***************************************************************************)
IsPending(i, uid, hostname) ==
    /\ card_registrations[i].uid = uid
    /\ card_registrations[i].device_hostname = hostname
    /\ card_registrations[i].status = "pending"

ScanKinds == {"card_scan", "tag", "access", "log"}

UnknownCardScan ==
    /\ last.op = "message"
    /\ last.kind \in ScanKinds
    /\ last.unknown_card

\* C4: at most one CardRegistration is pending for any (uid, device_hostname).
C4_OnePendingPerCard ==
    \A i, j \in 1..Len(card_registrations) :
        IsPending(j, card_registrations[i].uid, card_registrations[i].device_hostname)
            /\ card_registrations[i].status = "pending"
        => i = j

\* C5: while detection is off, a scan of an unknown card creates no
\* CardRegistration and emits no "new card detected" notification.
C5_NoCaptureWhileInactive ==
    (UnknownCardScan /\ ~card_detection_active) =>
        last.regs_added = 0 /\ last.new_card = 0

\* C6: while detection is on, a scan of an unknown card with a uid and a
\* hostname emits "new card detected" and leaves a pending CardRegistration
\* for (uid, hostname).
C6_CaptureWhileActive ==
    (UnknownCardScan /\ card_detection_active /\ Truthy(last.uid) /\ Truthy(last.host)) =>
        /\ last.new_card >= 1
        /\ \E i \in 1..Len(card_registrations) : IsPending(i, last.uid, last.host)

\* C7: every scan of an unknown card appends exactly one AccessLogEntry.
C7_OneLogPerScan ==
    UnknownCardScan => last.logs_added = 1

(***************************************************************************)
(* Command dispatcher.                                                     *)
(***************************************************************************)
CommandOps == {"api_open_door", "api_sync_device_users",
               "api_complete_card_registration"}

Published == last.op \in CommandOps /\ last.pub_result /= "none"

RegisteredWithIp(device_ip) ==
    {connected_devices[i].hostname : i \in
        {j \in 1..Len(connected_devices) :
            connected_devices[j].ip_address = device_ip}}

\* C8: a command sent with only a (non-empty) IP goes to the per-device topic of every
\* hostname registered with that IP and to the generic topic exactly when no
\* hostname is registered with it; a command sent with a hostname goes to the
\* per-device topic of that hostname.
C8_RoutedToRegisteredDevice ==
    Published =>
        IF last.by_hostname
        THEN last.pub_topic = DeviceTopic(last.host)
        ELSE Truthy(last.ip) =>
             /\ \A hostname \in RegisteredWithIp(last.ip) :
                    last.pub_topic = DeviceTopic(hostname)
             /\ (last.pub_topic = GenericTopic <=> RegisteredWithIp(last.ip) = {})

\* C9: a dispatcher operation returns True exactly when the publish of its
\* command succeeded.
C9_ReturnsPublishOutcome ==
    Published => (last.returned = "True" <=> last.pub_result = "ok")

(***************************************************************************)
(* Completion of a registration.                                           *)
(***************************************************************************)
CompletionStep == last'.op = "api_complete_card_registration"

CompletedRow ==
    [uid |-> last'.uid, username |-> last'.user[1],
     device_hostname |-> last'.host, acctype |-> last'.user[2],
     valid_since |-> last'.user[3], valid_until |-> last'.user[4]]

SameUserKey(r, row) ==
    r.uid = row.uid /\ r.device_hostname = row.device_hostname

\* C10: completing a registration changes storage if and only if adduser
\* reported success: then the User (uid, device_hostname) of the registration
\* carries the supplied data, every other User is untouched and the
\* registration is completed; otherwise users and registrations are unchanged
\* and the response is an error.
C10_CompletionIffAddUserSucceeded ==
    [][CompletionStep =>
         IF last'.returned = "True"
         THEN /\ CompletedRow \in users'
              /\ \A r \in users' : SameUserKey(r, CompletedRow) => r = CompletedRow
              /\ {r \in users' : ~SameUserKey(r, CompletedRow)}
                     = {r \in users : ~SameUserKey(r, CompletedRow)}
              /\ card_registrations' =
                     [card_registrations EXCEPT ![last'.reg_id].status = "completed"]
              /\ last'.http = 200
         ELSE /\ users' = users
              /\ card_registrations' = card_registrations
              /\ last'.http >= 400]_vars

\* the second of two registrations of one card was completed as "bob": both
\* are completed and the card has the one User row, named "bob"
C10_Witness ==
    /\ last.op = "api_complete_card_registration"
    /\ last.returned = "True"
    /\ last.user[1] = "bob"
    /\ Len(card_registrations) >= 2
    /\ \A i \in 1..Len(card_registrations) : card_registrations[i].status = "completed"
    /\ Cardinality(users) = 1
    /\ \E r \in users : r.uid = last.uid /\ r.device_hostname = last.host
                           /\ r.username = "bob"

\* C11: a completion request for a registration that is already completed
\* issues no adduser command and changes neither users nor registrations.
C11_CompletedAtMostOnce ==
    [][(/\ last'.op = "api_complete_card_registration"
        /\ last'.reg_id \in 1..Len(card_registrations)
        /\ card_registrations[last'.reg_id].status = "completed")
       => /\ last'.pub_result = "none"
          /\ users' = users
          /\ card_registrations' = card_registrations]_vars

(***************************************************************************)
(* The end-to-end scenario: boot, tag scan under detection, completion.    *)
(***************************************************************************)
Boot(hostname, ip) ==
    [NoPayload EXCEPT !.type = "boot", !.hostname = hostname, !.ip = ip]

TraceHostnames == {Absent, "frontdoor"}

NextTrace ==
    \/ \E h \in TraceHostnames :
          OnMqttMessage(Topic("frontdoor", "send"), Boot(h, "10.0.0.7"))
    \/ \E h \in TraceHostnames, username \in ScanUsernames :
          OnMqttMessage(Topic("frontdoor", "tag"),
                        Scan(h, <<Absent, Absent>>, "AB12", username))
    \/ HandleStartCardDetection("c1")
    \/ HandleStopCardDetection("c1")
    \/ \E id \in 1..MaxRegs, r \in PublishResults :
          ApiCompleteCardRegistration(id, "alice", "1", "0", "0", r)

SpecTrace == InitUtc /\ [][NextTrace]_vars

PendingFor(uid, hostname) ==
    {i \in 1..Len(card_registrations) : IsPending(i, uid, hostname)}

\* C12: a boot message for "frontdoor" leaves Device(frontdoor) online; the
\* first tag scan of the unknown card AB12 on frontdoor under detection leaves
\* one AccessLogEntry with is_known = FALSE and one pending CardRegistration
\* (AB12, frontdoor); a successful completion as alice with acctype 1 leaves
\* User (AB12, frontdoor) with acctype 1 and the registration completed.
C12_EndToEndTrace ==
    /\ (last.op = "message" /\ last.kind = "boot" /\ last.host = "frontdoor") =>
           \E r \in devices : r.hostname = "frontdoor" /\ r.status = "online"
    /\ (/\ last.op = "message" /\ last.kind = "tag" /\ last.host = "frontdoor"
        /\ last.uid = "AB12" /\ last.unknown_card /\ card_detection_active
        /\ Len(access_logs) = 1) =>
           /\ access_logs[1].uid = "AB12"
           /\ access_logs[1].device_hostname = "frontdoor"
           /\ ~access_logs[1].is_known
           /\ Cardinality(PendingFor("AB12", "frontdoor")) = 1
    /\ (/\ last.op = "api_complete_card_registration" /\ last.returned = "True"
        /\ last.uid = "AB12" /\ last.host = "frontdoor") =>
           /\ \E r \in users : /\ r.uid = "AB12" /\ r.device_hostname = "frontdoor"
                               /\ r.username = "alice" /\ r.acctype = "1"
           /\ card_registrations[last.reg_id].status = "completed"

(***************************************************************************)
(* Hub button commands: lines 283-292 and handle_unlock_command.           *)
(***************************************************************************)
\* handle_unlock_command (lines 998-1046): open_door(device_ip, hostname)
HandleUnlockCommand(hostname, result) ==
    IF ~HasDevice(hostname)
    THEN [NoLast EXCEPT !.op = "unlock", !.host = hostname]
    ELSE Sent("unlock", "opendoor", hostname,
              DeviceRow(hostname).ip_address, hostname, result)

\* a message the test of line 284 takes for a button command; its payload is
\* never decoded
OnButtonCommand(topic, result) ==
    /\ IsButtonTopic(topic)
    /\ LET button_id == topic[3]
           hostname == ButtonHostname(button_id)
       IN  last' = [(IF hostname /= Absent
                     THEN HandleUnlockCommand(hostname, result)
                     ELSE [NoLast EXCEPT !.op = "button"])
                    EXCEPT !.button = ButtonSegment(topic)]
    /\ UNCHANGED <<devices, users, access_logs, events, card_registrations,
                   connected_devices, ha_discovery_sent, card_detection_active,
                   detecting_clients, sweep_job,
                   now, tz, next_sweep>>

(***************************************************************************)
(* The classifier over the topics the subscriptions deliver.               *)
(***************************************************************************)
ButtonIds == {UnlockButtonId("door1"), "unlock", "esp_rfid_door1_lock"}

DeviceTopics == {Topic("door1", leaf) : leaf \in ScanLeaves}

ButtonTopics == {HubButtonTopic(id) : id \in ButtonIds}

ClassifyHostnames == {Absent, "unknown", "door1"}

\* <<type, cmd, uid>> of the payloads: one for each rule of the kind
\* resolution, one matching two rules and one matching none
ClassifyShapes ==
    {<<"boot", Absent, Absent>>, <<"access", Absent, "AB12">>,
     <<"INFO", Absent, Absent>>, <<Absent, "userfile", "AB12">>,
     <<Absent, "log", "AB12">>, <<Absent, Absent, "AB12">>,
     <<"boot", "log", "AB12">>, <<Absent, Absent, Absent>>}

Message(hostname, shape) ==
    [NoPayload EXCEPT !.hostname = hostname, !.type = shape[1], !.cmd = shape[2],
                      !.uid = shape[3], !.user = "alice"]

\* no handler has written yet
FreshTables ==
    /\ access_logs = <<>> /\ card_registrations = <<>>
    /\ events = <<>> /\ users = {}

\* messages are classified until one of them has written to a table
NextClassify ==
    \/ \E topic \in DeviceTopics \cup ButtonTopics, h \in ClassifyHostnames,
          shape \in ClassifyShapes :
          FreshTables /\ OnMqttMessage(topic, Message(h, shape))
    \/ \E topic \in DeviceTopics \cup ButtonTopics : OnUndecodableMessage(topic)
    \/ \E topic \in ButtonTopics, r \in PublishResults : OnButtonCommand(topic, r)

SpecClassify == InitUtc /\ [][NextClassify]_vars

\* C13: a message on homeassistant/button/esp_rfid_<H>_unlock/cmd goes to the
\* unlock handler with hostname H, whatever its payload, and with Device(H)
\* known an opendoor command is published to <base>/<H>/cmd.
C13_ButtonRoutedToUnlock ==
    \A h \in ButtonHostnames :
        last.button = UnlockButtonId(h) =>
            /\ last.op = "unlock"
            /\ last.host = h
            /\ HasDevice(h) =>
                  last.kind = "opendoor" /\ last.pub_topic = DeviceTopic(h)

\* C14: a message on homeassistant/button/<id>/cmd creates or refreshes no
\* Device, runs no kind-specific handler, and with an <id> that is not
\* esp_rfid_<hostname>_unlock changes no state and publishes nothing.
C14_ButtonNeverDeviceMessage ==
    [][last'.button /= "" =>
          /\ devices' = devices
          /\ connected_devices' = connected_devices
          /\ last'.handlers = 0
          /\ <<users, access_logs, events, card_registrations>>' =
                 <<users, access_logs, events, card_registrations>>
          /\ ButtonHostname(last'.button) = Absent =>
                 /\ ha_discovery_sent' = ha_discovery_sent
                 /\ last'.pub_result = "none"]_vars

ReservedNames == {"send", "cmd", "tag"}

\* C15: the resolved hostname of a decoded device message is payload.hostname
\* when present and not "unknown", else the <hostname> segment of the topic,
\* and never a reserved name nor the base topic name.
C15_HostnameResolution ==
    (last.op = "message" /\ last.button = "") =>
        IF last.payload_hostname \notin {Absent, "unknown"}
        THEN last.host = last.payload_hostname
        ELSE /\ last.topic_device /= "" => last.host = last.topic_device
             /\ last.host \notin ReservedNames
             /\ last.host /= MQTT_TOPIC[Len(MQTT_TOPIC)]

\* C16: a decoded message runs at most one kind-specific handler, and a
\* message matching no rule runs none and writes nothing.
C16_FirstMatchWins ==
    last.op = "message" =>
        /\ last.handlers <= 1
        /\ last.kind = "none" =>
              /\ last.handlers = 0
              /\ last.logs_added = 0 /\ last.regs_added = 0 /\ last.new_card = 0

\* C18: a message that is not a button command and whose payload does not
\* decode leaves every table, the registry and the discovery set as they were
\* and publishes nothing.
C18_UndecodableDropped ==
    [][(last'.op = "dropped" /\ last'.button = "") =>
          /\ UNCHANGED <<devices, users, access_logs, events, card_registrations,
                         connected_devices, ha_discovery_sent>>
          /\ last'.pub_result = "none"]_vars

\* an undecodable message arrived on a device topic whose device is not stored
C18_Witness ==
    /\ last.op = "dropped"
    /\ last.topic_device = "door1"
    /\ ~HasDevice("door1")
    /\ devices /= {}

(***************************************************************************)
(* Failures: every handler runs inside the try of on_mqtt_message, the     *)
(* sweeper as a scheduler job.                                             *)
(***************************************************************************)
\* the refresh undone together with the failed handler
DevicesRolledBack(hostname, ip_address) == devices

\* update_device_status committed at line 370, before the handler was called
DevicesAfterHandlerFailure(hostname, ip_address) ==
    UpsertedDevices(hostname, ip_address)

\* a handler raises, before its INSERT is committed or after it; the except
\* clause of line 346 logs the error
OnHandlerFailure(topic, payload, committed) ==
    /\ ~IsButtonTopic(topic)
    /\ LET device_hostname == ResolveHostname(topic, payload)
           device_ip == Get(payload.ip, "")
           p == ResolvedPayload(topic, payload)
           effect == IF committed THEN Handle(Kind(topic, p), p) ELSE NoEffect
       IN  /\ Kind(topic, p) \notin {"none", "heartbeat"}
           /\ Len(access_logs) + Len(effect.logs) <= MaxLogs
           /\ Len(card_registrations) + Len(effect.regs) <= MaxRegs
           /\ Len(events) + Len(effect.events) <= MaxEvents
           /\ devices' = DevicesAfterHandlerFailure(device_hostname, device_ip)
           /\ connected_devices' = CachedOnline(device_hostname, device_ip)
           /\ ha_discovery_sent' = DiscoverySent(device_hostname)
           /\ access_logs' = access_logs \o effect.logs
           /\ card_registrations' = ApplyRegs(effect.regs)
           /\ users' = ApplyUsers(effect.users)
           /\ events' = events \o effect.events
           /\ last' = [NoLast EXCEPT
                  !.op = "handler_failed",
                  !.host = device_hostname,
                  !.kind = Kind(topic, p),
                  !.prev_status = StoredStatus(device_hostname),
                  !.back_online = WasOffline(device_hostname),
                  !.discovery = DiscoveryPublished(device_hostname),
                  !.after_failure = AfterFailure]
    /\ UNCHANGED <<card_detection_active,
                   detecting_clients, sweep_job, now, tz, next_sweep>>

\* the job removed from the scheduler by its exception
UnscheduledAfterFailure == 0 - 1

\* the interval trigger fires again whatever the last run did
RescheduledAfterFailure == next_sweep + SweepInterval

\* cleanup_offline_devices raises in its storage block (lines 2287-2303):
\* nothing is committed
CleanupFails ==
    /\ now = next_sweep
    /\ next_sweep' = RescheduledAfterFailure
    /\ last' = [NoLast EXCEPT !.op = "sweep_failed", !.after_failure = AfterFailure]
    /\ UNCHANGED <<devices, users, access_logs, events, card_registrations,
                   connected_devices, ha_discovery_sent, card_detection_active,
                   detecting_clients, sweep_job,
                   now, tz>>

NextFailures ==
    \/ OnMqttMessage(Topic("door1", "send"), Heartbeat("door1", "10.0.0.5"))
    \/ OnMqttMessage(Topic("door1", "send"), Boot("door1", "10.0.0.5"))
    \/ \E committed \in BOOLEAN :
          OnHandlerFailure(Topic("door1", "send"), Boot("door1", "10.0.0.5"), committed)
    \/ OnUndecodableMessage(Topic("door1", "send"))
    \/ Tick
    \/ CleanupOfflineDevices
    \/ CleanupFails

SpecFailures == InitUtc /\ [][NextFailures]_vars

\* C17: whatever the kind of a decoded message, and whether its handler ends
\* normally or raises, the Device of the resolved hostname is online in storage
\* and in the registry with last_seen at the receipt time.
C17_RefreshSurvivesHandler ==
    (last.op \in {"message", "handler_failed"} /\ last.kind /= "none") =>
        /\ \E r \in devices :
              r.hostname = last.host /\ r.status = "online" /\ r.last_seen = now
        /\ last.host \in DictKeys(connected_devices)
        /\ DictGet(connected_devices, last.host).status = "online"
        /\ last.host \in ha_discovery_sent

\* the boot handler raised for a device the sweeper had demoted
C17_Witness ==
    /\ last.op = "handler_failed"
    /\ last.kind = "boot"
    /\ last.prev_status = "offline"
    /\ now > 0
    /\ \E r \in devices :
          r.hostname = last.host /\ r.status = "online" /\ r.last_seen = now

DeleteMinutes == 2          \* timedelta(minutes=2)
DeleteTimeout == DeleteMinutes * 60

\* lines 1239-1264: marked offline, or datetime.now() - last_seen > 2 minutes,
\* the local clock against the stored UTC time
IsOffline(device) ==
    \/ device.status = "offline"
    \/ (now + tz) - device.last_seen > DeleteTimeout

\* DELETE FROM users without its WHERE clause
UsersAfterDeviceDeleteAll(hostname) == {}

\* line 1277: DELETE FROM users WHERE device_hostname = ?
UsersAfterDeviceDelete(hostname) == {u \in users : u.device_hostname /= hostname}

\* DELETE FROM access_logs WHERE device_hostname = ? added to the cascade
LogsAfterDeviceDeleteCascade(hostname) ==
    SelectSeq(access_logs, LAMBDA row : row.device_hostname /= hostname)

\* lines 1269-1282: user_permissions, users and devices are deleted from,
\* access_logs is not
LogsAfterDeviceDelete(hostname) == access_logs

ApiDeleteDevice(hostname) ==
    LET request == [NoLast EXCEPT !.op = "api_delete_device", !.host = hostname]
    IN
    /\ IF ~HasDevice(hostname)
       THEN /\ last' = [request EXCEPT !.http = 404]
            /\ UNCHANGED <<devices, users, access_logs>>
       ELSE IF ~IsOffline(DeviceRow(hostname))
       THEN /\ last' = [request EXCEPT !.http = 400,
                                       !.prev_status = DeviceRow(hostname).status]
            /\ UNCHANGED <<devices, users, access_logs>>
       ELSE /\ users' = UsersAfterDeviceDelete(hostname)
            /\ devices' = devices \ DeviceRows(hostname)
            /\ access_logs' = LogsAfterDeviceDelete(hostname)
            /\ last' = [request EXCEPT !.http = 200,
                                       !.prev_status = DeviceRow(hostname).status]
    /\ UNCHANGED <<events, card_registrations, connected_devices,
                   ha_discovery_sent, card_detection_active,
                   detecting_clients, sweep_job, now, tz, next_sweep>>

Userfile(hostname, uid, user) ==
    [NoPayload EXCEPT !.cmd = "userfile", !.hostname = hostname,
                      !.uid = uid, !.user = user]

NextDelete ==
    \/ OnMqttMessage(Topic("door1", "send"), Heartbeat("door1", "10.0.0.5"))
    \/ OnMqttMessage(Topic("door1", "send"), Userfile("door1", "AB12", "alice"))
    \/ OnMqttMessage(Topic("door2", "send"), Userfile("door2", "CD34", "bob"))
    \/ OnMqttMessage(Topic("door1", "tag"), Scan("door1", <<Absent, Absent>>, "AB12", "alice"))
    \/ Tick
    \/ CleanupOfflineDevices
    \/ \E h \in {"door1", "door2"} : ApiDeleteDevice(h)

SpecDelete == Init /\ [][NextDelete]_vars

\* C20: a delete succeeds only for a device that is offline, and not demoted
\* at this very instant, or whose last_seen is more than the delete timeout
\* ago; a delete of an online device seen within the timeout is rejected and
\* leaves devices and users unchanged.
C20_DeleteOnlyQuiescent ==
    [][(last'.op = "api_delete_device" /\ HasDevice(last'.host)) =>
          LET device == DeviceRow(last'.host)
              demoted_now == last.op = "sweep" /\ last'.host \in last.offline
          IN  /\ last'.http = 200 =>
                    \/ device.status = "offline" /\ ~demoted_now
                    \/ now - device.last_seen > DeleteTimeout
              /\ (device.status = "online" /\ now - device.last_seen <= DeleteTimeout) =>
                    /\ last'.http = 400
                    /\ devices' = devices
                    /\ users' = users]_vars

(***************************************************************************)
(* Deleting a device: what goes and what stays.                            *)
(***************************************************************************)
\* C21: a delete that succeeds removes the device row of its hostname and
\* every user of that hostname in one step, and leaves the users of the other
\* devices, the other device rows and every access log entry as they were.
C21_DeleteRemovesDeviceAndItsUsers ==
    [][(last'.op = "api_delete_device" /\ last'.http = 200) =>
          /\ devices' = {d \in devices : d.hostname /= last'.host}
          /\ ~(\E d \in devices' : d.hostname = last'.host)
          /\ ~(\E u \in users' : u.device_hostname = last'.host)
          /\ {u \in users' : u.device_hostname /= last'.host}
                = {u \in users : u.device_hostname /= last'.host}
          /\ access_logs' = access_logs]_vars

\* a device with a user and a log entry was deleted: the user of the other
\* device and the log entry of the deleted one are still there
C21_Witness ==
    /\ last.op = "api_delete_device" /\ last.http = 200
    /\ ~HasDevice(last.host)
    /\ \E u \in users : u.device_hostname /= last.host
    /\ \E i \in 1..Len(access_logs) : access_logs[i].device_hostname = last.host

(***************************************************************************)
(* The detection flag under several clients.                               *)
(***************************************************************************)
Clients == {"c1", "c2"}

\* two operators open and close the Add User modal while cards are scanned
NextDetection ==
    \/ \E c \in Clients : HandleStartCardDetection(c)
    \/ \E c \in Clients : HandleStopCardDetection(c)
    \/ \E c \in Clients : HandleDisconnect(c)
    \/ \E leaf \in {"send", "tag"}, shape \in ScanShapes, username \in ScanUsernames :
          OnMqttMessage(Topic("door1", leaf), Scan("door1", shape, "AB12", username))
    \/ Restart

SpecDetection == InitUtc /\ [][NextDetection]_vars

DetectionSignals == {"start_card_detection", "stop_card_detection"}

\* C22: the flag is false when the process starts and, after any start and
\* stop signals of any clients, it is true iff the latest signal was a start,
\* whoever sent it; nothing but a signal or a new process changes it.
C22_FlagFollowsLastSignal ==
    /\ [](/\ last.op \in {"init", "restart"} => ~card_detection_active
          /\ last.op = "start_card_detection" => card_detection_active
          /\ last.op = "stop_card_detection" => ~card_detection_active)
    /\ [][last'.op \notin DetectionSignals \cup {"restart"} =>
             card_detection_active' = card_detection_active]_vars

\* a stop of one client turned detection off while another client, which had
\* sent start, is still detecting
C22_Witness ==
    /\ last.op = "stop_card_detection"
    /\ ~card_detection_active
    /\ detecting_clients /= {}
    /\ last.client \notin detecting_clients

\* C23: the flag is true only while some client's add-card UI is open: some
\* connected client sent start and has since neither sent stop nor
\* disconnected.
C23_ActiveOnlyWhileUiOpen ==
    card_detection_active => detecting_clients /= {}

\* C24: while an operator has detection started and not stopped, a scan of an
\* unknown card still produces the new-card capture, whatever start and stop
\* signals other operators send.
C24_NoLeakAcrossOperators ==
    (UnknownCardScan /\ Truthy(last.uid) /\ Truthy(last.host) /\ detecting_clients /= {}) =>
        last.new_card >= 1

UserRows(uid, device_hostname) ==
    {u \in users : u.uid = uid /\ u.device_hostname = device_hostname}

IsOnline(hostname) == HasDevice(hostname) /\ DeviceRow(hostname).status = "online"

\* lines 1433-1446: the row on a known device goes when the device is offline
\* or the deletuid command was sent
DeletableFrom(device_hostname, result) ==
    /\ HasDevice(device_hostname)
    /\ IsOnline(device_hostname) => SendReturns(result)

\* no devices selected: every device that has a user with this uid
ApiDeleteUser(uid, device_hostname, result) ==
    LET request == [NoLast EXCEPT !.op = "api_delete_user", !.uid = uid,
                                  !.host = device_hostname]
        selected_devices == {u.device_hostname : u \in {r \in users : r.uid = uid}}
        commanded == \E h \in selected_devices : IsOnline(h)
    IN
    /\ IF UserRows(uid, device_hostname) = {}
       THEN /\ last' = [request EXCEPT !.http = 404]
            /\ UNCHANGED users
       ELSE /\ users' = {u \in users :
                           ~(u.uid = uid /\ DeletableFrom(u.device_hostname, result))}
            /\ last' = [request EXCEPT
                           !.http = 200,
                           !.kind = IF commanded THEN "deletuid" ELSE "none",
                           !.pub_result = IF commanded THEN result ELSE "none",
                           !.returned = IF commanded THEN PyBool(SendReturns(result))
                                        ELSE "none"]
    /\ UNCHANGED <<devices, access_logs, events, card_registrations,
                   connected_devices, ha_discovery_sent, card_detection_active,
                   detecting_clients, sweep_job, now, tz, next_sweep>>

\* lines 2182-2183: new_acctype = 1 if has_any_access else 0
NewAcctype(has_any_access) == IF has_any_access THEN "1" ELSE "0"

\* lines 2205-2209: UPDATE users SET acctype = ? WHERE id = ?, before any
\* command is sent and whatever becomes of it
UsersAfterPermissions(uid, device_hostname, has_any_access) ==
    {IF u \in UserRows(uid, device_hostname)
     THEN [u EXCEPT !.acctype = NewAcctype(has_any_access)]
     ELSE u : u \in users}

ApiUpdateUserPermissions(uid, device_hostname, has_any_access, result) ==
    LET request == [NoLast EXCEPT !.op = "api_update_user_permissions",
                                  !.uid = uid, !.host = device_hostname]
    IN
    /\ IF UserRows(uid, device_hostname) = {}
       THEN /\ last' = [request EXCEPT !.http = 404]
            /\ UNCHANGED users
       ELSE /\ users' = UsersAfterPermissions(uid, device_hostname, has_any_access)
            /\ last' =
                  IF IsOnline(device_hostname)
                  THEN [Sent("api_update_user_permissions", "adduser", device_hostname,
                             DeviceRow(device_hostname).ip_address, device_hostname,
                             result)
                        EXCEPT !.uid = uid, !.http = 200]
                  ELSE [request EXCEPT !.http = 200]
    /\ UNCHANGED <<devices, access_logs, events, card_registrations,
                   connected_devices, ha_discovery_sent, card_detection_active,
                   detecting_clients, sweep_job, now, tz, next_sweep>>

\* messages, the sweeper and the REST operations over the stored records
NextRecords ==
    \/ OnMqttMessage(Topic("door1", "send"), Heartbeat("door1", "10.0.0.5"))
    \/ OnMqttMessage(Topic("door1", "send"), Userfile("door1", "AB12", "alice"))
    \/ \E leaf \in {"send", "tag"} :
          OnMqttMessage(Topic("door1", leaf),
                        Scan("door1", <<Absent, Absent>>, "CD34", "Unknown"))
    \/ Tick
    \/ CleanupOfflineDevices
    \/ ApiDeleteDevice("door1")
    \/ \E r \in PublishResults : ApiDeleteUser("AB12", "door1", r)
    \/ \E id \in 1..MaxRegs, r \in PublishResults :
          ApiCompleteCardRegistration(id, "bob", "1", "0", "0", r)
    \/ \E b \in BOOLEAN, r \in PublishResults :
          ApiUpdateUserPermissions("AB12", "door1", b, r)

SpecRecords == InitUtc /\ [][NextRecords]_vars

\* C26: access_logs is append-only: no operation (message handling, sweep,
\* user or device deletion, registration completion, permission update)
\* modifies or deletes an entry that exists.
C26_AccessLogAppendOnly ==
    [][/\ Len(access_logs') >= Len(access_logs)
       /\ SubSeq(access_logs', 1, Len(access_logs)) = access_logs]_vars

\* a device with log entries was deleted and its entries are all still there
C26_Witness ==
    /\ last.op = "api_delete_device" /\ last.http = 200
    /\ Len(access_logs) = MaxLogs
    /\ \A i \in 1..Len(access_logs) : access_logs[i].device_hostname = last.host

ChangedUsers == users' \ users

\* C27: a users row is created or changed only by an adduser command that
\* was reported successful for its (uid, device) or by a user file message of
\* its device.
C27_UsersChangeOnlyByAddUserOrSync ==
    [][\A u \in ChangedUsers :
          \/ /\ last'.kind = "adduser"
             /\ last'.returned = "True"
             /\ last'.uid = u.uid
             /\ last'.host = u.device_hostname
          \/ /\ last'.op = "message"
             /\ last'.kind = "userfile"
             /\ last'.host = u.device_hostname]_vars

(***************************************************************************)
(* The "back online" notification.                                         *)
(***************************************************************************)
\* C28: a message for a hostname publishes "back online" iff the stored
\* status of the hostname just before the message was offline; a hostname
\* with no device row gets none.
C28_BackOnlineIffStoredOffline ==
    last.op = "message" => (last.back_online <=> last.prev_status = "offline")

(***************************************************************************)
(* The sweep.                                                              *)
(***************************************************************************)
\* C29: a sweep sets offline exactly the devices that are online and whose
\* last_seen, on the clock that stamped it, is more than the timeout ago; a
\* device seen less than the timeout ago is never demoted and an offline
\* device is left as it is.
C29_SweepDemotesExactlyTheStale ==
    [][last'.op = "sweep" =>
          LET due == {r \in devices :
                         r.status = "online" /\ now - r.last_seen > OfflineTimeout}
          IN  devices' = (devices \ due)
                            \cup {[r EXCEPT !.status = "offline"] : r \in due}]_vars

(***************************************************************************)
(* cleanup_offline_devices step by step.  The job runs in a thread of the  *)
(* scheduler while messages are handled in the thread of the bus client;   *)
(* its SELECT, its UPDATE with the commit, and its loop over the selected  *)
(* hostnames are three steps a message can come between.                   *)
(***************************************************************************)
\* lines 2285-2295: the cutoff is computed, the stale online rows are selected
SweepSelect ==
    /\ now = next_sweep
    /\ sweep_job.pc = "idle"
    /\ sweep_job' = [NoSweep EXCEPT !.pc = "selected",
                                    !.offline_devices = {r.hostname : r \in StaleRows},
                                    !.cutoff_time = CutoffTime]
    /\ last' = [NoLast EXCEPT !.op = "sweep_select"]
    /\ UNCHANGED <<devices, users, access_logs, events, card_registrations,
                   connected_devices, ha_discovery_sent, card_detection_active,
                   detecting_clients, now, tz, next_sweep>>

\* lines 2297-2303: UPDATE ... WHERE last_seen < ? AND status = 'online', commit
SweepUpdate ==
    /\ sweep_job.pc = "selected"
    /\ LET rows == {r \in devices :
                       r.last_seen < sweep_job.cutoff_time /\ r.status = "online"}
       IN  /\ devices' = (devices \ rows)
                            \cup {[r EXCEPT !.status = "offline"] : r \in rows}
           /\ sweep_job' = [sweep_job EXCEPT !.pc = "committed",
                                             !.updated = {r.hostname : r \in rows}]
    /\ last' = [NoLast EXCEPT !.op = "sweep_update"]
    /\ UNCHANGED <<users, access_logs, events, card_registrations,
                   connected_devices, ha_discovery_sent, card_detection_active,
                   detecting_clients, now, tz, next_sweep>>

\* lines 2305-2340: the cached entries of the selected hostnames are marked
\* offline and the offline state is published for each of them.  The run is
\* over within the second it began in: the clock moves on from here.
SweepNotify ==
    /\ sweep_job.pc = "committed"
    /\ connected_devices' =
           [i \in 1..Len(connected_devices) |->
               IF connected_devices[i].hostname \in sweep_job.offline_devices
               THEN [connected_devices[i] EXCEPT !.status = "offline"]
               ELSE connected_devices[i]]
    /\ last' = [NoLast EXCEPT !.op = "sweep",
                              !.offline = sweep_job.offline_devices,
                              !.demoted = sweep_job.updated]
    /\ sweep_job' = NoSweep
    /\ next_sweep' = next_sweep + SweepInterval
    /\ UNCHANGED <<devices, users, access_logs, events, card_registrations,
                   ha_discovery_sent, card_detection_active,
                   detecting_clients, now, tz>>

SweepHostnames == {"door1", "door2"}

NextSweep ==
    \/ \E h \in SweepHostnames :
          OnMqttMessage(Topic(h, "send"), Heartbeat(h, "10.0.0.5"))
    \/ Tick
    \/ SweepSelect
    \/ SweepUpdate
    \/ SweepNotify

SpecSweep == InitUtc /\ [][NextSweep]_vars

\* C30: however a sweep and the handling of messages interleave, the sweep
\* publishes "device offline" for a hostname (and marks its cached entry
\* offline) iff this sweep changed the stored status of the hostname from
\* online to offline.
C30_OfflineNotifiedIffDemoted ==
    last.op = "sweep" => last.offline = last.demoted

(***************************************************************************)
(* The cache and the storage under a sweep that interleaves with messages. *)
(***************************************************************************)
CachedStatus(hostname) == DictGet(connected_devices, hostname).status

\* C31: when no sweep is in progress, the cached status of every cached
\* hostname equals its stored status, however the steps of a sweep and the
\* messages for the hostname interleaved before.
C31_CacheAgreesWithStorage ==
    sweep_job.pc = "idle" =>
        \A h \in DictKeys(connected_devices) :
            HasDevice(h) => CachedStatus(h) = StoredStatus(h)

\* C32: when a sweep that demoted a hostname has finished and a message for
\* the hostname wrote to storage after the demotion, the hostname is online
\* in storage and the notification the sweep ends with is not "offline" for
\* it.
C32_NoLostPromotion ==
    last.op = "sweep" =>
        \A h \in last.demoted :
            StoredStatus(h) = "online" => h \notin last.offline

(***************************************************************************)
(* Who writes status = offline.                                            *)
(***************************************************************************)
\* some device stored online before the step is stored offline after it
StoredDemotion ==
    \E d \in devices, e \in devices' :
        d.hostname = e.hostname /\ d.status = "online" /\ e.status = "offline"

\* some hostname cached online before the step is cached offline after it
CachedDemotion ==
    \E i \in 1..Len(connected_devices), j \in 1..Len(connected_devices') :
        /\ connected_devices[i].hostname = connected_devices'[j].hostname
        /\ connected_devices[i].status = "online"
        /\ connected_devices'[j].status = "offline"

\* C33: only the sweeper turns a device from online to offline, in storage
\* and in the cache: no message, command, registration completion or REST
\* operation does.
C33_OnlySweeperDemotes ==
    [][(StoredDemotion \/ CachedDemotion) => last'.op = "sweep"]_vars

\* the sweeper demoted a device, in storage and in the cache
C33_Witness ==
    /\ last.op = "sweep"
    /\ \E h \in last.demoted :
          /\ StoredStatus(h) = "offline"
          /\ h \in DictKeys(connected_devices)
          /\ CachedStatus(h) = "offline"

(***************************************************************************)
(* The ip address of a device.                                             *)
(***************************************************************************)
\* C34: a message for a known hostname changes the stored ip_address only to
\* an ip the payload carries: a message without an ip leaves the known
\* address in storage and in the cache, and the hostname can still be found
\* by it.
C34_IpKeptWithoutPayloadIp ==
    [][(last'.op = "message" /\ HasDevice(last'.host)) =>
          \A d \in devices, e \in devices' :
              (d.hostname = last'.host /\ e.hostname = last'.host
                  /\ e.ip_address /= d.ip_address)
              => Truthy(e.ip_address)]_vars

(***************************************************************************)
(* The device a completion is sent to.                                     *)
(***************************************************************************)
BoundIps == {Absent, "10.0.0.5"}

\* two devices behind one address; cards are scanned at door2 and completed
NextBound ==
    \/ OnMqttMessage(Topic("door1", "send"), Heartbeat("door1", "10.0.0.5"))
    \/ \E ip \in BoundIps :
          OnMqttMessage(Topic("door2", "send"),
              [Scan("door2", <<Absent, Absent>>, "AB12", "Unknown") EXCEPT !.ip = ip])
    \/ Restart
    \/ \E id \in 1..MaxRegs, r \in PublishResults :
          ApiCompleteCardRegistration(id, "alice", "1", "0", "0", r)

SpecBound == InitUtc /\ [][NextBound]_vars

\* C35: a completion publishes its adduser command to the command topic of
\* the device the registration is bound to, whatever the cache holds.
C35_CompletionSentToBoundDevice ==
    (last.op = "api_complete_card_registration" /\ last.pub_topic /= <<>>) =>
        last.pub_topic = DeviceTopic(last.host)

(***************************************************************************)
(* The key of a user.                                                      *)
(***************************************************************************)
\* one card provisioned on two devices, synced again and completed again
NextProvision ==
    \/ \E user \in {"alice", "bob"} :
          OnMqttMessage(Topic("door1", "send"), Userfile("door1", "AB12", user))
    \/ OnMqttMessage(Topic("door2", "send"), Userfile("door2", "AB12", "alice"))
    \/ OnMqttMessage(Topic("door1", "send"),
                     Scan("door1", <<Absent, Absent>>, "AB12", "Unknown"))
    \/ \E id \in 1..MaxRegs, r \in PublishResults :
          ApiCompleteCardRegistration(id, "carol", "1", "0", "0", r)

SpecProvision == InitUtc /\ [][NextProvision]_vars

\* C36: there is at most one users row per (uid, device_hostname); the same
\* uid on two devices is two rows, and provisioning or syncing the same
\* (uid, device) again replaces the row.
C36_OneUserPerKey ==
    \A u, v \in users :
        (u.uid = v.uid /\ u.device_hostname = v.device_hostname) => u = v

\* the card is stored for door1 and for door2, and the row of door1 is the
\* one the completion wrote
C36_Witness ==
    /\ last.op = "api_complete_card_registration" /\ last.returned = "True"
    /\ Cardinality(users) = 2
    /\ \E u, v \in users :
          /\ u.uid = "AB12" /\ u.device_hostname = "door1" /\ u.username = "carol"
          /\ v.uid = "AB12" /\ v.device_hostname = "door2"

(***************************************************************************)
(* Remote unlock.                                                          *)
(***************************************************************************)
\* C37: a remote unlock of a known device (hub button or open-door request)
\* appends one access log entry for that device.
C37_RemoteUnlockLogged ==
    [][(last'.op \in {"api_open_door", "unlock"} /\ last'.kind = "opendoor") =>
          /\ Len(access_logs') = Len(access_logs) + 1
          /\ access_logs'[Len(access_logs')].device_hostname = last'.host]_vars

(***************************************************************************)
(* Deleting a user.                                                        *)
(***************************************************************************)
\* C38: a user-delete request removes a users row only after the delete
\* command for the uid was published to the device; with no command
\* published (device offline, publish failed) the row stays.
C38_UserRemovedOnlyAfterCommand ==
    [][(last'.op = "api_delete_user" /\ users' /= users) =>
          last'.pub_result = "ok"]_vars

(***************************************************************************)
(* Messages on the topics of a single-device setup: <base>/send,           *)
(* <base>/cmd, <base>/tag.                                                  *)
(***************************************************************************)
SingleDeviceTopic(leaf) == MQTT_TOPIC \o <<leaf>>

NextUnresolved ==
    \/ \E leaf \in ScanLeaves, h \in ClassifyHostnames :
          OnMqttMessage(SingleDeviceTopic(leaf), Heartbeat(h, "10.0.0.5"))
    \/ Tick
    \/ CleanupOfflineDevices

SpecUnresolved == InitUtc /\ [][NextUnresolved]_vars

\* no hostname in the payload and no device segment in the topic
Unresolvable ==
    /\ last.op = "message"
    /\ last.payload_hostname \in {Absent, "unknown"}
    /\ last.topic_device = ""

\* C39: a decoded message whose hostname cannot be resolved creates no
\* device row and no cache entry under a placeholder hostname.
C39_NoPlaceholderDevice ==
    Unresolvable =>
        /\ ~HasDevice(last.host)
        /\ last.host \notin DictKeys(connected_devices)

(***************************************************************************)
(* The cache after a delete.                                               *)
(***************************************************************************)
\* C40: the hostnames in the cache are hostnames in storage: after a
\* successful delete of a device the cache has no entry for it, and a
\* command addressed by its ip is not routed to its topic.
C40_CacheWithinStorage ==
    \A h \in DictKeys(connected_devices) : HasDevice(h)

====
